---------------------------- MODULE Spec2Model ----------------------------
(***************************************************************************)
(* Exynos dual cluster support (arch/arm/mach-exynos/edcs.c): the          *)
(* reference-counted power sequencer.  Every core is a process; the steps  *)
(* of exynos_power_up and exynos_power_down are the statements of the      *)
(* source that touch shared state, taken one at a time, so that every      *)
(* interleaving the lock allows is explored.  The MCPM coordinator         *)
(* (the __mcpm_ calls), the PMU power gate and the reset path are          *)
(* collaborators of the sequencer whose code is not part of edcs.c.        *)
(***************************************************************************)
EXTENDS Integers, Sequences, FiniteSets

\* ---------------------------------------------------------------- constants

EDCS_CPUS_PER_CLUSTER == 4

EDCS_CLUSTERS == 2

MAX_CPUS_PER_CLUSTER == 4

SECONDARY_RESET == 2

S5P_CORE_LOCAL_PWR_EN == 3

ENODEV == 19

\* edcs_init returns 0 or a negative errno; this value of init_ret stands for
\* "edcs_init has not returned yet".
NotReturned == 1

\* Number of cores that take part in requests; the tables keep their full size.
MaxCores == 3

\* Number of successive calls of the power gate that are examined.
MaxCalls == 2

Cpus == 0 .. (EDCS_CPUS_PER_CLUSTER - 1)

Clusters == 0 .. (EDCS_CLUSTERS - 1)

\* The i-th participating core, as <<cpu, cluster>>: two cores of cluster 0,
\* two of cluster 1, then the next two of cluster 0, and so on.
CoreOf(i) == << (i % 2) + 2 * (i \div 4), (i \div 2) % EDCS_CLUSTERS >>

Cores == { CoreOf(i) : i \in 0 .. (MaxCores - 1) }

\* The core whose MPIDR edcs_data_init reads: the boot processor.
BootCore == CoreOf(0)

NoCore == << -1, -1 >>

CpuOf(x) == x[1]

ClusterOf(x) == x[2]

CoresOf(c) == { x \in Cores : ClusterOf(x) = c }

\* ---------------------------------------------------------------- state

VARIABLES
    edcs_lock,        \* holder of edcs_lock, NoCore when unlocked
    edcs_use_count,   \* edcs_use_count[cpu][cluster]
    core_count,       \* core_count[cluster]
    core_config,      \* EDCS_CORE_CONFIGURATION(offset), as last written
    core_status,      \* EDCS_CORE_STATUS(offset) & 0x3
    boot_flag,        \* REG_CPU_STATE_ADDR(cpu)
    entry_addr,       \* REG_ENTRY_ADDR holds mcpm_entry_point
    registered,       \* exynos_power_ops registered with the frontend
    init_ret,         \* NotReturned before edcs_init, then its return value
    mcpm_cpu,         \* coordinator: per-core state
    mcpm_cluster,     \* coordinator: per-cluster state
    gic_if,           \* the core's GIC CPU interface is enabled
    cci_port,         \* the cluster's CCI port is enabled
    pc,               \* each core's position
    tgt,              \* exynos_power_up: the (cpu, cluster) arguments
    last_man,         \* exynos_power_down: local last_man
    skip_wfi,         \* exynos_power_down: local skip_wfi
    crit,             \* exynos_power_down: the branch taken at line 143
    trace,            \* history: the events of the request a core is executing
    raced,            \* history: power_up requests completed during the core's power_down
    epoch             \* history: per cluster, the elections since the last power_up

vars == << edcs_lock, edcs_use_count, core_count, core_config, core_status,
           boot_flag, entry_addr, registered, init_ret, mcpm_cpu, mcpm_cluster,
           gic_if, cci_port, pc, tgt, last_man, skip_wfi, crit, trace, raced,
           epoch >>

hw_vars == << core_config, core_status, boot_flag, entry_addr, gic_if, cci_port >>

mcpm_vars == << mcpm_cpu, mcpm_cluster >>

table_vars == << edcs_use_count, core_count >>

local_vars == << tgt, last_man, skip_wfi, crit >>

init_vars == << registered, init_ret >>

\* ---------------------------------------------------------------- helpers

Offset(cpu, cluster) == cluster * MAX_CPUS_PER_CLUSTER + cpu

Offsets == 0 .. (EDCS_CLUSTERS * MAX_CPUS_PER_CLUSTER - 1)

UseCount(x) == edcs_use_count[CpuOf(x)][ClusterOf(x)]

SetUseCount(x, v) ==
    [edcs_use_count EXCEPT ![CpuOf(x)][ClusterOf(x)] = v]

Config(x) == core_config[Offset(CpuOf(x), ClusterOf(x))]

Status(x) == core_status[Offset(CpuOf(x), ClusterOf(x))]

EmptyEpoch == [started |-> TRUE, last |-> {}, agent |-> {}, failed |-> {}]

\* Variant: the configuration register is written whatever the status reads.
WritesAlways(cpu, cluster, enable) == TRUE

\* Line 57: (readl_relaxed(EDCS_CORE_STATUS(offset)) & 0x3) != value, the
\* condition under which exynos_core_power_control writes.
WritesConfig(cpu, cluster, enable) ==
    LET offset == Offset(cpu, cluster)
        value  == IF enable THEN S5P_CORE_LOCAL_PWR_EN ELSE 0
    IN  (core_status[offset] % 4) # value

\* The value core_config takes when exynos_core_power_control returns.
exynos_core_power_control(cpu, cluster, enable) ==
    LET offset == Offset(cpu, cluster)
        value  == IF enable THEN S5P_CORE_LOCAL_PWR_EN ELSE 0
    IN  IF WritesConfig(cpu, cluster, enable)
        THEN [core_config EXCEPT ![offset] = value]
        ELSE core_config

exynos_core_power_up(cpu, cluster) == exynos_core_power_control(cpu, cluster, TRUE)

\* Variant: the power configuration is left as it was.
ConfigNotCleared(cpu, cluster) == core_config

exynos_core_power_down(cpu, cluster) == exynos_core_power_control(cpu, cluster, FALSE)

\* Variant: the flag register is left as it was.
BootFlagNotWritten(cpu, mode) == boot_flag

set_boot_flag(cpu, mode) == [boot_flag EXCEPT ![cpu] = mode]

\* ---------------------------------------------------------------- statements
\* The statements of exynos_power_up and exynos_power_down that decide the
\* bookkeeping, each with the variants that are used further down to show
\* that a property depends on the statement.

\* Variant: core_count is not raised.
CoreCountNotRaised(c) == core_count

\* Line 88: ++core_count[cluster].
CoreCountAfterUp(c) == [core_count EXCEPT ![c] = @ + 1]

\* Variant: no value is fatal.
NeverBug(n) == FALSE

\* Variant: every value but 1 is fatal.
AlwaysBug(n) == TRUE

\* Lines 98-100: else if (edcs_use_count[cpu][cluster] != 2) BUG().
PowerUpBug(n) == n # 2

\* Variant: core_count is not lowered.
CoreCountNotLowered(c) == core_count

\* Line 126: --core_count[cluster].
CoreCountAfterDown(c) == [core_count EXCEPT ![c] = @ - 1]

\* Variant: the core that leaves one other core behind is elected too.
LastManOrSecondLast(n) == n <= 1

\* Variant: every core whose use count drops to zero is elected.
AlwaysLastMan(n) == TRUE

\* Line 127: if (core_count[cluster] == 0) last_man = true.
LastMan(n) == n = 0

\* Variant: every value but 0 takes the skip_wfi branch.
SkipWfiUnlessZero(n) == n # 0

\* Variant: no value of the use count leads to the skip-WFI branch.
SkipWfiNever(n) == FALSE

\* Line 129: else if (edcs_use_count[cpu][cluster] == 1), the skip_wfi branch.
SkipWfi(n) == n = 1

\* Variant: the lock stays with the core that held it.
LockKept(holder) == holder

\* Lines 103, 144 and 190: arch_spin_unlock(&edcs_lock), the value the lock
\* takes.
arch_spin_unlock(holder) == NoCore

\* Variant: the GIC CPU interface is taken down on every path.
GicDownAlways(skip) == TRUE

\* Variant: the GIC CPU interface is never taken down.
GicDownNever(skip) == FALSE

\* Line 140: if (!skip_wfi), the guard of gic_cpu_if_down().
GicDown(skip) == ~skip

Log(x, ev) == [trace EXCEPT ![x] = Append(@, ev)]

\* ---------------------------------------------------------------- initial state

\* Before edcs_init: static storage is zero and the boot core is executing.
\* Every other core is either powered off or, for the cores in fw, has been
\* released by the boot firmware and waits at reset for the entry vector.
InitWith(fw) ==
    /\ edcs_lock = NoCore
    /\ edcs_use_count = [cpu \in Cpus |-> [cluster \in Clusters |-> 0]]
    /\ core_count = [cluster \in Clusters |-> 0]
    /\ core_config = [o \in Offsets |->
            IF \E x \in fw \cup {BootCore} : Offset(CpuOf(x), ClusterOf(x)) = o
            THEN S5P_CORE_LOCAL_PWR_EN ELSE 0]
    /\ core_status = [o \in Offsets |->
            IF \E x \in fw \cup {BootCore} : Offset(CpuOf(x), ClusterOf(x)) = o
            THEN S5P_CORE_LOCAL_PWR_EN ELSE 0]
    /\ boot_flag = [cpu \in Cpus |-> 0]
    /\ entry_addr = FALSE
    /\ registered = FALSE
    /\ init_ret = NotReturned
    /\ mcpm_cpu = [x \in Cores |-> "CPU_DOWN"]
    /\ mcpm_cluster = [c \in Clusters |-> "CLUSTER_DOWN"]
    /\ gic_if = [x \in Cores |-> x = BootCore]
    /\ cci_port = [c \in Clusters |-> c = ClusterOf(BootCore)]
    /\ pc = [x \in Cores |->
            IF x = BootCore THEN "init"
            ELSE IF x \in fw THEN "reset" ELSE "off"]
    /\ tgt = [x \in Cores |-> NoCore]
    /\ last_man = [x \in Cores |-> FALSE]
    /\ skip_wfi = [x \in Cores |-> FALSE]
    /\ crit = [x \in Cores |-> FALSE]
    /\ trace = [x \in Cores |-> << >>]
    /\ raced = [x \in Cores |-> {}]
    /\ epoch = [c \in Clusters |-> [EmptyEpoch EXCEPT !.started = FALSE]]

Init == \E fw \in SUBSET (Cores \ {BootCore}) : InitWith(fw)

\* ---------------------------------------------------------------- edcs_init

\* Variant: the boot core's use count is seeded, core_count is not.
DataInitUseCountOnly(x) ==
    /\ edcs_use_count' = SetUseCount(x, 1)
    /\ UNCHANGED core_count

\* edcs_data_init: seed the table for the executing (boot) core.
edcs_data_init(x) ==
    /\ edcs_use_count' = SetUseCount(x, 1)
    /\ core_count' = [core_count EXCEPT ![ClusterOf(x)] = @ + 1]

\* mcpm_sync_init: every core and cluster DOWN, the caller and its cluster UP.
mcpm_sync_init(x) ==
    /\ mcpm_cpu' = [y \in Cores |-> IF y = x THEN "CPU_UP" ELSE "CPU_DOWN"]
    /\ mcpm_cluster' = [c \in Clusters |->
            IF c = ClusterOf(x) THEN "CLUSTER_UP" ELSE "CLUSTER_DOWN"]

\* edcs_init, run once by the boot core: node and cci are what
\* of_find_compatible_node and cci_probed answer, ret what
\* mcpm_platform_register returns.
edcs_init(node, cci, ret) ==
    /\ pc[BootCore] = "init"
    /\ pc' = [pc EXCEPT ![BootCore] = "run"]
    /\ IF ~node \/ ~cci
       THEN /\ init_ret' = -ENODEV
            /\ UNCHANGED << entry_addr, table_vars, registered, mcpm_vars, epoch >>
       ELSE /\ entry_addr' = TRUE
            /\ edcs_data_init(BootCore)
            /\ epoch' = [epoch EXCEPT ![ClusterOf(BootCore)] = EmptyEpoch]
            /\ init_ret' = ret
            /\ IF ret = 0
               THEN registered' = TRUE /\ mcpm_sync_init(BootCore)
               ELSE UNCHANGED << registered, mcpm_vars >>
    /\ UNCHANGED << edcs_lock, core_config, core_status, boot_flag, gic_if,
                    cci_port, local_vars, trace, raced >>


\* ---------------------------------------------------------------- exynos_power_up

\* Lines 78-84: a running core calls exynos_power_up(cpu, cluster) for core t,
\* disables its interrupts and takes edcs_lock (it spins until the lock is free).
PowerUpLock(y, t) ==
    /\ registered
    /\ pc[y] = "run"
    /\ edcs_lock = NoCore
    /\ edcs_lock' = y
    /\ tgt' = [tgt EXCEPT ![y] = t]
    /\ pc' = [pc EXCEPT ![y] = "pu_inc"]
    /\ trace' = [trace EXCEPT ![y] = << "irq_disable", "lock" >>]
    /\ UNCHANGED << table_vars, hw_vars, mcpm_vars, init_vars, last_man,
                    skip_wfi, crit, raced, epoch >>

\* Line 86: edcs_use_count[cpu][cluster]++.
PowerUpInc(y) ==
    /\ pc[y] = "pu_inc"
    /\ edcs_use_count' = SetUseCount(tgt[y], UseCount(tgt[y]) + 1)
    /\ epoch' = [epoch EXCEPT ![ClusterOf(tgt[y])] = EmptyEpoch]
    /\ pc' = [pc EXCEPT ![y] = "pu_test"]
    /\ trace' = Log(y, "inc")
    /\ UNCHANGED << edcs_lock, core_count, hw_vars, mcpm_vars, init_vars,
                    local_vars, raced >>

\* Lines 87-101: the branch on the new value; ++core_count[cluster] when it is 1.
PowerUpTest(y) ==
    /\ pc[y] = "pu_test"
    /\ IF UseCount(tgt[y]) = 1
       THEN /\ core_count' = CoreCountAfterUp(ClusterOf(tgt[y]))
            /\ pc' = [pc EXCEPT ![y] = "pu_flag"]
            /\ trace' = Log(y, "count_inc")
       ELSE IF PowerUpBug(UseCount(tgt[y]))
       THEN /\ pc' = [pc EXCEPT ![y] = "bug_up"]
            /\ UNCHANGED << core_count, trace >>
       ELSE /\ pc' = [pc EXCEPT ![y] = "pu_unlock"]
            /\ UNCHANGED << core_count, trace >>
    /\ UNCHANGED << edcs_lock, edcs_use_count, hw_vars, mcpm_vars, init_vars,
                    local_vars, raced, epoch >>

\* Line 89: set_boot_flag(cpu, SECONDARY_RESET).
PowerUpFlag(y) ==
    /\ pc[y] = "pu_flag"
    /\ boot_flag' = set_boot_flag(CpuOf(tgt[y]), SECONDARY_RESET)
    /\ pc' = [pc EXCEPT ![y] = "pu_gate"]
    /\ trace' = Log(y, "boot_flag")
    /\ UNCHANGED << edcs_lock, table_vars, core_config, core_status, entry_addr,
                    gic_if, cci_port, mcpm_vars, init_vars, local_vars, raced, epoch >>

\* Line 90: exynos_core_power_up(cpu, cluster).
PowerUpGate(y) ==
    /\ pc[y] = "pu_gate"
    /\ core_config' = exynos_core_power_up(CpuOf(tgt[y]), ClusterOf(tgt[y]))
    /\ pc' = [pc EXCEPT ![y] = "pu_unlock"]
    /\ trace' = Log(y, "gate_on")
    /\ UNCHANGED << edcs_lock, table_vars, core_status, boot_flag, entry_addr,
                    gic_if, cci_port, mcpm_vars, init_vars, local_vars, raced, epoch >>

\* Positions of exynos_power_down before and after the locked section.
BeforeDecrement == { "pd_lock" }

AfterUnlock == { "pd_flush", "pd_cci", "pd_leave", "pd_cpu_down" }

\* Lines 103-106: unlock, enable interrupts, return 0.  The request for core
\* t is now complete; the history records whether t's own power_down was in
\* flight.
PowerUpUnlock(y) ==
    /\ pc[y] = "pu_unlock"
    /\ edcs_lock' = arch_spin_unlock(y)
    /\ pc' = [pc EXCEPT ![y] = "run"]
    /\ tgt' = [tgt EXCEPT ![y] = NoCore]
    /\ trace' = [trace EXCEPT ![y] = << >>]
    /\ raced' = [raced EXCEPT ![tgt[y]] =
            IF pc[tgt[y]] \in BeforeDecrement THEN @ \cup {"before"}
            ELSE IF pc[tgt[y]] \in AfterUnlock THEN @ \cup {"after"}
            ELSE @]
    /\ UNCHANGED << table_vars, hw_vars, mcpm_vars, init_vars, last_man,
                    skip_wfi, crit, epoch >>

\* ---------------------------------------------------------------- coordinator

\* The other cores of x's cluster, as the coordinator sees them.
OthersIn(x, states) ==
    { y \in CoresOf(ClusterOf(x)) \ {x} : mcpm_cpu[y] \in states }

\* __mcpm_outbound_enter_critical can answer once no other core of the cluster
\* is still going down, or at once when one is up.
CanEnterCritical(x) ==
    \/ OthersIn(x, {"CPU_UP"}) # {}
    \/ OthersIn(x, {"CPU_GOING_DOWN"}) = {}

\* Its answer: TRUE when every other core of the cluster is down.
EnterCriticalResult(x) == OthersIn(x, {"CPU_UP"}) = {}

\* ---------------------------------------------------------------- exynos_power_down

\* Lines 108-120: a running core calls exynos_power_down on itself;
\* __mcpm_cpu_going_down(cpu, cluster).
PowerDownEntry(x) ==
    /\ registered
    /\ pc[x] = "run"
    /\ last_man' = [last_man EXCEPT ![x] = FALSE]
    /\ skip_wfi' = [skip_wfi EXCEPT ![x] = FALSE]
    /\ crit' = [crit EXCEPT ![x] = FALSE]
    /\ mcpm_cpu' = [mcpm_cpu EXCEPT ![x] = "CPU_GOING_DOWN"]
    /\ pc' = [pc EXCEPT ![x] = "pd_lock"]
    /\ trace' = [trace EXCEPT ![x] = << "going_down" >>]
    /\ raced' = [raced EXCEPT ![x] = {}]
    /\ UNCHANGED << edcs_lock, table_vars, hw_vars, mcpm_cluster, init_vars,
                    tgt, epoch >>

\* Line 122: arch_spin_lock(&edcs_lock).
PowerDownLock(x) ==
    /\ pc[x] = "pd_lock"
    /\ edcs_lock = NoCore
    /\ edcs_lock' = x
    /\ pc' = [pc EXCEPT ![x] = "pd_state"]
    /\ trace' = Log(x, "lock")
    /\ UNCHANGED << table_vars, hw_vars, mcpm_vars, init_vars, local_vars,
                    raced, epoch >>

\* Variant: the assertion fires unless the cluster is down.
ClusterStateBugUnlessDown(state) == state # "CLUSTER_DOWN"

\* Line 123: the condition of BUG_ON.
ClusterStateBug(state) == state # "CLUSTER_UP"

\* Line 123: BUG_ON(__mcpm_cluster_state(cluster) != CLUSTER_UP).
PowerDownState(x) ==
    /\ pc[x] = "pd_state"
    /\ pc' = [pc EXCEPT ![x] =
            IF ClusterStateBug(mcpm_cluster[ClusterOf(x)]) THEN "bug_state" ELSE "pd_dec"]
    /\ UNCHANGED << edcs_lock, table_vars, hw_vars, mcpm_vars, init_vars,
                    local_vars, trace, raced, epoch >>

\* Line 124: edcs_use_count[cpu][cluster]--.
PowerDownDec(x) ==
    /\ pc[x] = "pd_dec"
    /\ edcs_use_count' = SetUseCount(x, UseCount(x) - 1)
    /\ pc' = [pc EXCEPT ![x] = "pd_count"]
    /\ trace' = Log(x, "dec")
    /\ UNCHANGED << edcs_lock, core_count, hw_vars, mcpm_vars, init_vars,
                    local_vars, raced, epoch >>

\* Lines 125-138: the branch on the new value.
PowerDownCount(x) ==
    LET c == ClusterOf(x) IN
    /\ pc[x] = "pd_count"
    /\ IF UseCount(x) = 0
       THEN /\ core_count' = CoreCountAfterDown(c)
            /\ last_man' = [last_man EXCEPT ![x] = LastMan(CoreCountAfterDown(c)[c])]
            /\ epoch' = [epoch EXCEPT
                    ![c].last = IF LastMan(CoreCountAfterDown(c)[c])
                                THEN @ \cup {x} ELSE @]
            /\ pc' = [pc EXCEPT ![x] = "pd_gic"]
            /\ UNCHANGED skip_wfi
       ELSE IF SkipWfi(UseCount(x))
       THEN /\ skip_wfi' = [skip_wfi EXCEPT ![x] = TRUE]
            /\ pc' = [pc EXCEPT ![x] = "pd_gic"]
            /\ UNCHANGED << core_count, last_man, epoch >>
       ELSE /\ pc' = [pc EXCEPT ![x] = "bug_count"]
            /\ UNCHANGED << core_count, last_man, skip_wfi, epoch >>
    /\ UNCHANGED << edcs_lock, edcs_use_count, hw_vars, mcpm_vars, init_vars,
                    tgt, crit, trace, raced >>

\* Lines 140-141: if (!skip_wfi) gic_cpu_if_down().
PowerDownGic(x) ==
    /\ pc[x] = "pd_gic"
    /\ IF GicDown(skip_wfi[x])
       THEN gic_if' = [gic_if EXCEPT ![x] = FALSE] /\ trace' = Log(x, "gic_down")
       ELSE UNCHANGED << gic_if, trace >>
    /\ pc' = [pc EXCEPT ![x] = "pd_crit"]
    /\ UNCHANGED << edcs_lock, table_vars, core_config, core_status, boot_flag,
                    entry_addr, cci_port, mcpm_vars, init_vars, local_vars,
                    raced, epoch >>

\* Variant: the whole-cluster branch is taken whatever the claim answers.
WholeClusterUnclaimed(claimed) == TRUE

\* Line 143: the condition of the whole-cluster branch, for the elected core.
WholeCluster(claimed) == claimed

\* Line 143: last_man && __mcpm_outbound_enter_critical(cpu, cluster).
PowerDownCrit(x) ==
    LET c == ClusterOf(x) IN
    /\ pc[x] = "pd_crit"
    /\ IF last_man[x]
       THEN /\ CanEnterCritical(x)
            /\ crit' = [crit EXCEPT ![x] = WholeCluster(EnterCriticalResult(x))]
            /\ mcpm_cluster' = [mcpm_cluster EXCEPT ![c] =
                    IF EnterCriticalResult(x) THEN "CLUSTER_GOING_DOWN" ELSE "CLUSTER_UP"]
            /\ epoch' = [epoch EXCEPT
                    ![c].agent = IF EnterCriticalResult(x) THEN @ \cup {x} ELSE @,
                    ![c].failed = IF EnterCriticalResult(x) THEN @ ELSE @ \cup {x}]
            /\ trace' = Log(x, "enter_critical")
       ELSE /\ crit' = [crit EXCEPT ![x] = FALSE]
            /\ UNCHANGED << mcpm_cluster, epoch, trace >>
    /\ pc' = [pc EXCEPT ![x] = "pd_unlock"]
    /\ UNCHANGED << edcs_lock, table_vars, hw_vars, mcpm_cpu, init_vars, tgt,
                    last_man, skip_wfi, raced >>

\* Lines 144 and 190: arch_spin_unlock(&edcs_lock), in either branch.
PowerDownUnlock(x) ==
    /\ pc[x] = "pd_unlock"
    /\ edcs_lock' = arch_spin_unlock(x)
    /\ pc' = [pc EXCEPT ![x] = "pd_flush"]
    /\ trace' = Log(x, "unlock")
    /\ UNCHANGED << table_vars, hw_vars, mcpm_vars, init_vars, local_vars,
                    raced, epoch >>

\* Lines 146-183 (whole cache, v7_flush_dcache_all) or 191-210 (L1 only,
\* v7_flush_dcache_louis).
PowerDownFlush(x) ==
    /\ pc[x] = "pd_flush"
    /\ IF crit[x]
       THEN pc' = [pc EXCEPT ![x] = "pd_cci"] /\ trace' = Log(x, "flush_all")
       ELSE pc' = [pc EXCEPT ![x] = "pd_cpu_down"] /\ trace' = Log(x, "flush_louis")
    /\ UNCHANGED << edcs_lock, table_vars, hw_vars, mcpm_vars, init_vars,
                    local_vars, raced, epoch >>

\* Line 185: cci_disable_port_by_cpu(mpidr).
PowerDownCci(x) ==
    /\ pc[x] = "pd_cci"
    /\ cci_port' = [cci_port EXCEPT ![ClusterOf(x)] = FALSE]
    /\ pc' = [pc EXCEPT ![x] = "pd_leave"]
    /\ trace' = Log(x, "cci_disable")
    /\ UNCHANGED << edcs_lock, table_vars, core_config, core_status, boot_flag,
                    entry_addr, gic_if, mcpm_vars, init_vars, local_vars, raced,
                    epoch >>

\* Line 187: __mcpm_outbound_leave_critical(cluster, CLUSTER_DOWN).
PowerDownLeave(x) ==
    /\ pc[x] = "pd_leave"
    /\ mcpm_cluster' = [mcpm_cluster EXCEPT ![ClusterOf(x)] = "CLUSTER_DOWN"]
    /\ pc' = [pc EXCEPT ![x] = "pd_cpu_down"]
    /\ trace' = Log(x, "cluster_down")
    /\ UNCHANGED << edcs_lock, table_vars, hw_vars, mcpm_cpu, init_vars,
                    local_vars, raced, epoch >>

\* Lines 213-219: __mcpm_cpu_down(cpu, cluster); then, unless skip_wfi,
\* exynos_core_power_down(cpu, cluster) and wfi(), which suspends the core;
\* with skip_wfi the function returns and the core goes on executing.
PowerDownFinish(x) ==
    /\ pc[x] = "pd_cpu_down"
    /\ mcpm_cpu' = [mcpm_cpu EXCEPT ![x] = "CPU_DOWN"]
    /\ IF ~skip_wfi[x]
       THEN /\ core_config' = exynos_core_power_down(CpuOf(x), ClusterOf(x))
            /\ pc' = [pc EXCEPT ![x] = "wfi"]
            /\ trace' = [trace EXCEPT ![x] = @ \o << "cpu_down", "gate_off", "wfi" >>]
       ELSE /\ pc' = [pc EXCEPT ![x] = "pd_ret"]
            /\ trace' = [trace EXCEPT ![x] = @ \o << "cpu_down", "return" >>]
            /\ UNCHANGED core_config
    /\ UNCHANGED << edcs_lock, table_vars, core_status, boot_flag, entry_addr,
                    gic_if, cci_port, mcpm_cluster, init_vars, local_vars,
                    raced, epoch >>

\* The core is back in its caller after a power_down that returned.
PowerDownRet(x) ==
    /\ pc[x] = "pd_ret"
    /\ pc' = [pc EXCEPT ![x] = "run"]
    /\ skip_wfi' = [skip_wfi EXCEPT ![x] = FALSE]
    /\ trace' = [trace EXCEPT ![x] = << >>]
    /\ raced' = [raced EXCEPT ![x] = {}]
    /\ UNCHANGED << edcs_lock, table_vars, hw_vars, mcpm_vars, init_vars,
                    tgt, last_man, crit, epoch >>

\* ---------------------------------------------------------------- hardware

\* The PMU removes the power of a core that waits in WFI with its
\* configuration register cleared.
PmuPowerOff(x) ==
    /\ pc[x] = "wfi"
    /\ Config(x) = 0
    /\ core_status' = [core_status EXCEPT ![Offset(CpuOf(x), ClusterOf(x))] = 0]
    /\ pc' = [pc EXCEPT ![x] = "off"]
    /\ last_man' = [last_man EXCEPT ![x] = FALSE]
    /\ crit' = [crit EXCEPT ![x] = FALSE]
    /\ trace' = [trace EXCEPT ![x] = << >>]
    /\ raced' = [raced EXCEPT ![x] = {}]
    /\ UNCHANGED << edcs_lock, table_vars, core_config, boot_flag, entry_addr,
                    gic_if, cci_port, mcpm_vars, init_vars, tgt, skip_wfi,
                    epoch >>

\* The PMU powers a core whose configuration register asks for it; the core
\* leaves reset.
PmuPowerOn(x) ==
    /\ pc[x] = "off"
    /\ Config(x) = S5P_CORE_LOCAL_PWR_EN
    /\ core_status' = [core_status EXCEPT
            ![Offset(CpuOf(x), ClusterOf(x))] = S5P_CORE_LOCAL_PWR_EN]
    /\ pc' = [pc EXCEPT ![x] = "reset"]
    /\ UNCHANGED << edcs_lock, table_vars, core_config, boot_flag, entry_addr,
                    gic_if, cci_port, mcpm_vars, init_vars, local_vars, trace,
                    raced, epoch >>

\* edcs_power_up_setup (lines 243-247): b cci_enable_port_for_self, whatever
\* the affinity level.
edcs_power_up_setup(x) == [cci_port EXCEPT ![ClusterOf(x)] = TRUE]

\* A core out of reset enters through REG_ENTRY_ADDR (mcpm_entry_point): it
\* waits while its cluster is being taken down, runs the power_up_setup hook
\* registered at line 272, and the cluster and the core are up.
mcpm_entry_point(x) ==
    /\ pc[x] = "reset"
    /\ entry_addr
    /\ mcpm_cluster[ClusterOf(x)] # "CLUSTER_GOING_DOWN"
    /\ cci_port' = edcs_power_up_setup(x)
    /\ mcpm_cluster' = [mcpm_cluster EXCEPT ![ClusterOf(x)] = "CLUSTER_UP"]
    /\ mcpm_cpu' = [mcpm_cpu EXCEPT ![x] = "CPU_UP"]
    /\ gic_if' = [gic_if EXCEPT ![x] = TRUE]
    /\ pc' = [pc EXCEPT ![x] = "run"]
    /\ UNCHANGED << edcs_lock, table_vars, core_config, core_status, boot_flag,
                    entry_addr, init_vars, local_vars, trace, raced, epoch >>

\* ---------------------------------------------------------------- specification

Next ==
    \/ \E node \in BOOLEAN, cci \in BOOLEAN, ret \in {0, -16} : edcs_init(node, cci, ret)
    \/ \E y \in Cores, t \in Cores : PowerUpLock(y, t)
    \/ \E y \in Cores : PowerUpInc(y)
    \/ \E y \in Cores : PowerUpTest(y)
    \/ \E y \in Cores : PowerUpFlag(y)
    \/ \E y \in Cores : PowerUpGate(y)
    \/ \E y \in Cores : PowerUpUnlock(y)
    \/ \E x \in Cores : PowerDownEntry(x)
    \/ \E x \in Cores : PowerDownLock(x)
    \/ \E x \in Cores : PowerDownState(x)
    \/ \E x \in Cores : PowerDownDec(x)
    \/ \E x \in Cores : PowerDownCount(x)
    \/ \E x \in Cores : PowerDownGic(x)
    \/ \E x \in Cores : PowerDownCrit(x)
    \/ \E x \in Cores : PowerDownUnlock(x)
    \/ \E x \in Cores : PowerDownFlush(x)
    \/ \E x \in Cores : PowerDownCci(x)
    \/ \E x \in Cores : PowerDownLeave(x)
    \/ \E x \in Cores : PowerDownFinish(x)
    \/ \E x \in Cores : PowerDownRet(x)
    \/ \E x \in Cores : PmuPowerOff(x)
    \/ \E x \in Cores : PmuPowerOn(x)
    \/ \E x \in Cores : mcpm_entry_point(x)

Spec == Init /\ [][Next]_vars

\* ---------------------------------------------------------------- properties

InPowerDown == { "pd_lock", "pd_state", "pd_dec", "pd_count", "pd_gic",
                 "pd_crit", "pd_unlock", "pd_flush", "pd_cci", "pd_leave",
                 "pd_cpu_down" }

ActiveIn(c) == { cpu \in Cpus : edcs_use_count[cpu][c] >= 1 }

\* C1: whenever edcs_lock is not held, core_count[c] is the number of cores
\* of cluster c whose use count is at least 1, for every cluster c.
C1_CoreCountMatchesTable ==
    edcs_lock = NoCore =>
        \A c \in Clusters : core_count[c] = Cardinality(ActiveIn(c))

\* Both clusters have an active core, the lock is free, and a core that has
\* been through exynos_power_down waits in WFI while a second core of its
\* cluster is still counted.
C1_Witness ==
    /\ edcs_lock = NoCore
    /\ core_count[0] = 1
    /\ core_count[1] = 1
    /\ \E x \in CoresOf(0) : pc[x] = "wfi" /\ UseCount(x) = 0

\* C2, as stated: every entry of the use-count table is 0, 1 or 2 in every
\* reachable state, the fatal states included.
C2_UseCountLegalEverywhere ==
    \A cpu \in Cpus, c \in Clusters : edcs_use_count[cpu][c] \in {0, 1, 2}

\* The request that holds the lock has stored v in the entry of core z and
\* has not passed the check that follows, or has stopped in BUG().
StoredByHolder(z, v) ==
    \E y \in Cores :
        /\ edcs_lock = y
        /\ \/ v = 3 /\ pc[y] \in {"pu_test", "bug_up"} /\ tgt[y] = z
           \/ v = -1 /\ pc[y] \in {"pd_count", "bug_count"} /\ y = z

\* C2, amended: every entry is 0, 1 or 2 whenever edcs_lock is not held; while
\* a request holds the lock, the one entry it has just incremented may hold 3
\* and the one it has just decremented may hold -1, and that value stays in
\* the table when the request stops in BUG().
C2_UseCountLegalUnlessFatal ==
    \A cpu \in Cpus, c \in Clusters :
        \/ edcs_use_count[cpu][c] \in {0, 1, 2}
        \/ StoredByHolder(<< cpu, c >>, edcs_use_count[cpu][c])

\* exynos_power_up has stopped in BUG() with 3 in the entry of its target.
C2_Witness ==
    \E y \in Cores : pc[y] = "bug_up" /\ UseCount(tgt[y]) = 3

\* C3: a core for which exynos_power_up completed while its own
\* exynos_power_down was in flight does not lose its power while its use
\* count is 1.  The step examined is the removal of power from a core in WFI
\* at a moment when no request holds the lock, so that the use count of 1 is
\* the one the completed exynos_power_up left behind.
C3_NoPowerOffWhileRequested ==
    [][\A x \in Cores :
        (pc[x] = "wfi" /\ pc'[x] = "off" /\ "after" \in raced[x]
                /\ edcs_lock = NoCore) => UseCount(x) # 1]_vars

\* The core runs the cluster branch of exynos_power_down (lines 144-187) and
\* is about to clean the whole cache hierarchy or to disable the CCI port.
TearingDown(x) == crit[x] /\ pc[x] \in {"pd_flush", "pd_cci"}

\* C4, as stated: while a core cleans the whole cache hierarchy or disables
\* the CCI port of its cluster, no core of that cluster has a use count of 1
\* or more, and core_count of the cluster is 0.
C4_NoActiveCoreDuringTeardown ==
    \A x \in Cores :
        TearingDown(x) =>
            core_count[ClusterOf(x)] = 0 /\ ActiveIn(ClusterOf(x)) = {}

\* C4, amended: a core enters the cluster branch only when no core of its
\* cluster has a use count of 1 or more, and this still holds while it cleans
\* the caches and disables the port unless an exynos_power_up for a core of
\* the cluster has incremented a use count since the election.
C4_NoActiveCoreAtElection ==
    \A x \in Cores :
        (crit[x] /\ pc[x] \in {"pd_unlock", "pd_flush", "pd_cci"}
                 /\ x \in epoch[ClusterOf(x)].agent) =>
            core_count[ClusterOf(x)] = 0 /\ ActiveIn(ClusterOf(x)) = {}

\* A core is about to disable the CCI port and no exynos_power_up for its
\* cluster has intervened.
C4_Witness ==
    \E x \in Cores : pc[x] = "pd_cci" /\ crit[x] /\ x \in epoch[ClusterOf(x)].agent

\* A core that executes (the coordinator has it up or going down) although
\* its use count is 0: its caller is outside the contract of the back-end.
Uncounted(z) == UseCount(z) = 0 /\ mcpm_cpu[z] \in {"CPU_UP", "CPU_GOING_DOWN"}

\* C5: between two exynos_power_up requests for a cluster, exactly one of the
\* cores that power down is elected last man, namely the one whose decrement
\* brings core_count to 0; only an elected core takes the cluster branch, and
\* the elected core's __mcpm_outbound_enter_critical succeeds unless a core of
\* the cluster executes without a use count.
C5_ElectionExclusive ==
    \A c \in Clusters :
        /\ Cardinality(epoch[c].last) <= 1
        /\ epoch[c].agent \subseteq epoch[c].last
        /\ epoch[c].failed \subseteq epoch[c].last
        /\ (epoch[c].started /\ edcs_lock = NoCore /\ core_count[c] = 0) =>
                Cardinality(epoch[c].last) = 1
        /\ \A x \in CoresOf(c) :
                /\ crit[x] => last_man[x]
                /\ (pc[x] = "pd_unlock" /\ last_man[x] /\ ~crit[x]) =>
                        \E z \in CoresOf(c) \ {x} : Uncounted(z)

\* Both cores of cluster 0 have been through exynos_power_down since the last
\* exynos_power_up: one was not elected and waits in WFI after the L1-only
\* branch, the other was elected and runs the cluster branch.
C5_Witness ==
    \E x \in CoresOf(0), z \in CoresOf(0) :
        /\ x # z
        /\ epoch[0].last = {x}
        /\ epoch[0].agent = {x}
        /\ crit[x] /\ pc[x] = "pd_flush"
        /\ pc[z] = "wfi" /\ ~last_man[z] /\ ~crit[z]

UseCountNext(x) == edcs_use_count'[CpuOf(x)][ClusterOf(x)]

ConfigNext(x) == core_config'[Offset(CpuOf(x), ClusterOf(x))]

\* The core x takes a step of the request it is executing.
Steps(x) == pc'[x] # pc[x]

SkipTrace ==
    << "going_down", "lock", "dec", "unlock", "flush_louis", "cpu_down", "return" >>

C6_AtReturn ==
    \A x \in Cores :
        pc[x] = "pd_ret" =>
            /\ trace[x] = SkipTrace
            /\ skip_wfi[x] /\ ~last_man[x] /\ ~crit[x]
            /\ UseCount(x) >= 1
            /\ gic_if[x]
            /\ mcpm_cpu[x] = "CPU_DOWN"
            /\ Config(x) = S5P_CORE_LOCAL_PWR_EN
            /\ Status(x) = S5P_CORE_LOCAL_PWR_EN

C6_Steps ==
    \A x \in Cores :
        /\ (pc[x] = "pd_dec" /\ Steps(x) /\ UseCount(x) = 2) => UseCountNext(x) = 1
        /\ (pc[x] = "pd_count" /\ Steps(x) /\ UseCount(x) = 1) =>
                skip_wfi'[x] /\ core_count' = core_count
        /\ (pc[x] = "pd_ret" /\ Steps(x)) => pc'[x] = "run"

\* C6: when exynos_power_up for X has raised X's use count to 2 before X's
\* exynos_power_down decrements, the power_down decrements to 1, leaves
\* core_count alone, does not take the GIC CPU interface down, cleans the L1
\* only, calls __mcpm_cpu_down, neither clears the power configuration nor
\* executes WFI, and returns.
C6_SkipSuspend == []C6_AtReturn /\ [][C6_Steps]_vars

\* X returns from a power_down during which, before its decrement, a
\* power_up for X completed.
C6_Witness ==
    \E x \in Cores : pc[x] = "pd_ret" /\ "before" \in raced[x] /\ UseCount(x) = 1

ClusterDownTrace ==
    << "going_down", "lock", "dec", "gic_down", "enter_critical", "unlock",
       "flush_all", "cci_disable", "cluster_down", "cpu_down", "gate_off", "wfi" >>

C7_AtWfi ==
    \A x \in Cores :
        (pc[x] = "wfi" /\ crit[x]) =>
            /\ trace[x] = ClusterDownTrace
            /\ last_man[x]
            /\ ~gic_if[x]
            /\ mcpm_cpu[x] = "CPU_DOWN"
            /\ Config(x) = 0

C7_Steps ==
    \A x \in Cores :
        /\ (pc[x] = "pd_crit" /\ Steps(x) /\ crit'[x]) =>
                UseCount(x) = 0 /\ core_count[ClusterOf(x)] = 0
        /\ (pc[x] = "pd_leave" /\ Steps(x)) =>
                mcpm_cluster'[ClusterOf(x)] = "CLUSTER_DOWN"
        /\ pc[x] = "wfi" => pc'[x] \in {"wfi", "off"}

\* C7: a power_down that brings the use count and core_count to 0 and whose
\* __mcpm_outbound_enter_critical succeeds performs, in this order:
\* __mcpm_cpu_going_down, lock, decrement, gic_cpu_if_down, the claim, unlock,
\* the flush of the whole cache hierarchy, cci_disable_port_by_cpu,
\* __mcpm_outbound_leave_critical (the cluster becomes CLUSTER_DOWN),
\* __mcpm_cpu_down, exynos_core_power_down, wfi; and it does not return.
C7_ClusterDownOrder == []C7_AtWfi /\ [][C7_Steps]_vars

\* The agent of a cluster teardown waits in WFI and no power_up for it raced.
C7_Witness ==
    \E x \in Cores :
        pc[x] = "wfi" /\ crit[x] /\ raced[x] = {}
            /\ mcpm_cluster[ClusterOf(x)] = "CLUSTER_DOWN"

LocalDownTrace ==
    << "going_down", "lock", "dec", "gic_down", "unlock", "flush_louis",
       "cpu_down", "gate_off", "wfi" >>

C8_InFlight ==
    \A x \in Cores :
        /\ (pc[x] \in {"pd_gic", "pd_crit", "pd_unlock"} /\ ~skip_wfi[x]) =>
                /\ UseCount(x) = 0
                /\ last_man[x] <=> core_count[ClusterOf(x)] = 0
        /\ (pc[x] = "wfi" /\ ~last_man[x]) =>
                /\ trace[x] = LocalDownTrace
                /\ ~crit[x]
                /\ ~gic_if[x]
                /\ mcpm_cpu[x] = "CPU_DOWN"
                /\ Config(x) = 0

C8_Steps ==
    \A x \in Cores :
        /\ (pc[x] = "pd_dec" /\ Steps(x) /\ UseCount(x) = 1) => UseCountNext(x) = 0
        /\ (pc[x] = "pd_count" /\ Steps(x) /\ UseCount(x) = 0
                /\ core_count[ClusterOf(x)] > 1) =>
                /\ core_count'[ClusterOf(x)] = core_count[ClusterOf(x)] - 1
                /\ ~last_man'[x]
        /\ (pc[x] \in InPowerDown /\ Steps(x) /\ ~last_man[x]) =>
                mcpm_cluster' = mcpm_cluster /\ cci_port' = cci_port

\* C8: a power_down of X while another core of its cluster keeps a use count
\* of 1 or more takes X's use count from 1 to 0 and core_count down by exactly
\* one to a value above 0; X is not elected and never calls
\* __mcpm_outbound_enter_critical, cleans the L1 only, leaves the CCI port and
\* the coordinator's cluster state alone, clears its power configuration and
\* executes WFI.
C8_NonLastCore == []C8_InFlight /\ [][C8_Steps]_vars

\* X waits in WFI after the L1-only branch, no power_up for X raced, another
\* core of the cluster is still counted and the cluster is up.
C8_Witness ==
    \E x \in Cores :
        /\ pc[x] = "wfi" /\ ~last_man[x] /\ raced[x] = {}
        /\ UseCount(x) = 0
        /\ core_count[ClusterOf(x)] = 1
        /\ mcpm_cluster[ClusterOf(x)] = "CLUSTER_UP"

FatalTrace == << "going_down", "lock", "dec" >>

C9_AtBug ==
    \A x \in Cores :
        pc[x] = "bug_count" =>
            /\ trace[x] = FatalTrace
            /\ UseCount(x) = -1
            /\ edcs_lock = x
            /\ ~skip_wfi[x] /\ ~last_man[x] /\ ~crit[x]
            /\ gic_if[x]
            /\ mcpm_cpu[x] = "CPU_GOING_DOWN"
            /\ Config(x) = S5P_CORE_LOCAL_PWR_EN

C9_Steps ==
    \A x \in Cores :
        /\ (pc[x] = "pd_dec" /\ Steps(x) /\ UseCount(x) = 0) =>
                pc'[x] = "pd_count" /\ UseCountNext(x) = -1
        /\ (pc[x] = "pd_count" /\ Steps(x) /\ UseCount(x) = -1) =>
                /\ pc'[x] = "bug_count"
                /\ UNCHANGED << core_count, gic_if, mcpm_cpu, mcpm_cluster,
                                core_config, cci_port, trace >>
        /\ pc[x] = "bug_count" =>
                /\ pc'[x] = "bug_count"
                /\ core_count' = core_count
                /\ trace'[x] = trace[x]
                /\ gic_if'[x] = gic_if[x]
                /\ mcpm_cpu'[x] = mcpm_cpu[x]
                /\ mcpm_cluster'[ClusterOf(x)] = mcpm_cluster[ClusterOf(x)]
                /\ cci_port'[ClusterOf(x)] = cci_port[ClusterOf(x)]
                /\ ConfigNext(x) = Config(x)

\* C9: a power_down by a core whose use count is 0 when it decrements stores
\* -1 and stops in BUG() at the use-count check: for that request there is no
\* gic_cpu_if_down, no cache flush, no __mcpm_cpu_down, no
\* __mcpm_outbound_leave_critical, no write of the power configuration and no
\* WFI, and core_count is not modified.
C9_FatalPath == []C9_AtBug /\ [][C9_Steps]_vars

\* A core has stopped in BUG() at the use-count check of exynos_power_down.
C9_Witness ==
    \E x \in Cores : pc[x] = "bug_count" /\ UseCount(x) = -1

FirstUpTrace ==
    << "irq_disable", "lock", "inc", "count_inc", "boot_flag", "gate_on" >>

C10_Locked ==
    \A y \in Cores :
        /\ pc[y] \in {"pu_inc", "pu_test", "pu_flag", "pu_gate", "pu_unlock"} =>
                edcs_lock = y
        /\ (pc[y] = "pu_flag") => trace[y] = SubSeq(FirstUpTrace, 1, 4)
        /\ (pc[y] = "pu_gate") =>
                /\ trace[y] = SubSeq(FirstUpTrace, 1, 5)
                /\ boot_flag[CpuOf(tgt[y])] = SECONDARY_RESET
        /\ (pc[y] = "pu_unlock" /\ UseCount(tgt[y]) = 1) =>
                /\ trace[y] = FirstUpTrace
                /\ boot_flag[CpuOf(tgt[y])] = SECONDARY_RESET

C10_Steps ==
    \A y \in Cores :
        /\ (pc[y] = "pu_inc" /\ Steps(y) /\ UseCount(tgt[y]) = 0) =>
                UseCountNext(tgt[y]) = 1 /\ core_count' = core_count
        /\ (pc[y] = "pu_test" /\ Steps(y) /\ UseCount(tgt[y]) = 1) =>
                /\ pc'[y] = "pu_flag"
                /\ core_count'[ClusterOf(tgt[y])] = core_count[ClusterOf(tgt[y])] + 1
        /\ (pc[y] = "pu_gate" /\ Steps(y) /\ Status(tgt[y]) # S5P_CORE_LOCAL_PWR_EN) =>
                ConfigNext(tgt[y]) = S5P_CORE_LOCAL_PWR_EN
        /\ (pc[y] = "pu_unlock" /\ Steps(y)) =>
                /\ pc'[y] = "run"
                /\ edcs_lock' = NoCore
                /\ pc'[tgt[y]] = IF tgt[y] = y THEN "run" ELSE pc[tgt[y]]
                /\ UNCHANGED << table_vars, hw_vars >>

\* C10: exynos_power_up for a core whose use count is 0 performs, with
\* interrupts disabled and edcs_lock held throughout, in this order: the use
\* count becomes 1, core_count of the cluster goes up by one, the boot flag
\* of the core is set to SECONDARY_RESET, exynos_core_power_up is called; it
\* then releases the lock and returns, whatever the state of the target core.
C10_FirstPowerUp == []C10_Locked /\ [][C10_Steps]_vars

\* The request is about to unlock and return while its target is still
\* powered off.
C10_Witness ==
    \E y \in Cores :
        /\ pc[y] = "pu_unlock" /\ UseCount(tgt[y]) = 1
        /\ pc[tgt[y]] = "off"
        /\ Config(tgt[y]) = S5P_CORE_LOCAL_PWR_EN

SecondUpTrace == << "irq_disable", "lock", "inc" >>

C11_AtUnlock ==
    \A y \in Cores :
        (pc[y] = "pu_unlock" /\ UseCount(tgt[y]) = 2) =>
            trace[y] = SecondUpTrace /\ edcs_lock = y

C11_Steps ==
    \A y \in Cores :
        /\ (pc[y] = "pu_inc" /\ Steps(y) /\ UseCount(tgt[y]) = 1) =>
                /\ edcs_use_count' = SetUseCount(tgt[y], 2)
                /\ UNCHANGED << core_count, hw_vars, mcpm_vars >>
        /\ (pc[y] = "pu_test" /\ Steps(y) /\ UseCount(tgt[y]) = 2) =>
                /\ pc'[y] = "pu_unlock"
                /\ UNCHANGED << table_vars, hw_vars, mcpm_vars >>
        /\ (pc[y] = "pu_unlock" /\ Steps(y) /\ UseCount(tgt[y]) = 2) =>
                /\ pc'[y] = "run"
                /\ edcs_lock' = NoCore
                /\ UNCHANGED << table_vars, hw_vars, mcpm_vars >>

\* C11: exynos_power_up that raises a use count from 1 to 2 changes that
\* entry only: core_count, the boot flag, the power configuration, every
\* other use count and the coordinator's state are left as they were, no
\* power-gate call is made, and the request unlocks and returns.
C11_SecondPowerUp == []C11_AtUnlock /\ [][C11_Steps]_vars

\* A request that found the use count at 1 is about to unlock and return
\* while its target is in the middle of its own exynos_power_down.
C11_Witness ==
    \E y \in Cores :
        /\ pc[y] = "pu_unlock" /\ UseCount(tgt[y]) = 2
        /\ pc[tgt[y]] = "pd_lock"

\* ---------------------------------------------------------------- the power gate alone

\* exynos_core_power_control called repeatedly for one core t, from any
\* contents of its status and configuration registers.  trace[BootCore]
\* records each call with what it asked for and whether it wrote, and each
\* time the hardware brought the status to the configured state in between.
GateInit ==
    \E t \in Cores, st \in 0 .. 3, cf \in {0, S5P_CORE_LOCAL_PWR_EN} :
        /\ edcs_lock = NoCore
        /\ edcs_use_count = [cpu \in Cpus |-> [cluster \in Clusters |-> 0]]
        /\ core_count = [cluster \in Clusters |-> 0]
        /\ core_config = [o \in Offsets |->
                IF o = Offset(CpuOf(t), ClusterOf(t)) THEN cf ELSE 0]
        /\ core_status = [o \in Offsets |->
                IF o = Offset(CpuOf(t), ClusterOf(t)) THEN st ELSE 0]
        /\ boot_flag = [cpu \in Cpus |-> 0]
        /\ entry_addr = FALSE
        /\ registered = FALSE
        /\ init_ret = NotReturned
        /\ mcpm_cpu = [x \in Cores |-> "CPU_DOWN"]
        /\ mcpm_cluster = [c \in Clusters |-> "CLUSTER_DOWN"]
        /\ gic_if = [x \in Cores |-> x = BootCore]
        /\ cci_port = [c \in Clusters |-> c = ClusterOf(BootCore)]
        /\ pc = [x \in Cores |-> IF x = BootCore THEN "gate" ELSE "off"]
        /\ tgt = [x \in Cores |-> IF x = BootCore THEN t ELSE NoCore]
        /\ last_man = [x \in Cores |-> FALSE]
        /\ skip_wfi = [x \in Cores |-> FALSE]
        /\ crit = [x \in Cores |-> FALSE]
        /\ trace = [x \in Cores |-> << >>]
        /\ raced = [x \in Cores |-> {}]
        /\ epoch = [c \in Clusters |-> [EmptyEpoch EXCEPT !.started = FALSE]]

GateEvent(enable, wrote) ==
    IF enable THEN (IF wrote THEN "on_write" ELSE "on_skip")
    ELSE (IF wrote THEN "off_write" ELSE "off_skip")

GateCalls == { "on_write", "on_skip", "off_write", "off_skip" }

GateWrites == { "on_write", "off_write" }

GateOn == { "on_write", "on_skip" }

CallsIn(tr) == Cardinality({ i \in 1 .. Len(tr) : tr[i] \in GateCalls })

\* Lines 51-61: one call of exynos_core_power_control(cpu, cluster, enable).
GateCall(enable) ==
    LET t == tgt[BootCore] IN
    /\ pc[BootCore] = "gate"
    /\ CallsIn(trace[BootCore]) < MaxCalls
    /\ core_config' = exynos_core_power_control(CpuOf(t), ClusterOf(t), enable)
    /\ trace' = Log(BootCore,
            GateEvent(enable, WritesConfig(CpuOf(t), ClusterOf(t), enable)))
    /\ UNCHANGED << edcs_lock, table_vars, core_status, boot_flag, entry_addr,
                    gic_if, cci_port, mcpm_vars, init_vars, local_vars, pc,
                    raced, epoch >>

\* The hardware carries out what the configuration register asks for: the
\* status register comes to read the configured state.
GateSettle ==
    LET o == Offset(CpuOf(tgt[BootCore]), ClusterOf(tgt[BootCore])) IN
    /\ pc[BootCore] = "gate"
    /\ core_status[o] # core_config[o]
    /\ core_status' = [core_status EXCEPT ![o] = core_config[o]]
    /\ trace' = Log(BootCore, "settle")
    /\ UNCHANGED << edcs_lock, table_vars, core_config, boot_flag, entry_addr,
                    gic_if, cci_port, mcpm_vars, init_vars, local_vars, pc,
                    raced, epoch >>

GateNext ==
    \/ \E enable \in BOOLEAN : GateCall(enable)
    \/ GateSettle

GateSpec == GateInit /\ [][GateNext]_vars

\* Two calls that ask for the same state.
SameRequest(e, f) ==
    e \in GateCalls /\ f \in GateCalls /\ (e \in GateOn <=> f \in GateOn)

\* C12, as stated: of two calls of the power gate made in succession for the
\* same core with the same desired state, the second writes nothing.
C12_SecondCallWritesNothing ==
    LET tr == trace[BootCore] IN
    \A i \in 1 .. (Len(tr) - 1) :
        SameRequest(tr[i], tr[i + 1]) => tr[i + 1] \notin GateWrites

\* C12, amended: the gate writes exactly when the status register differs from
\* the desired state.  Of two calls with the same desired state, the second
\* writes nothing when the first wrote and the hardware has brought the status
\* to the configured state in between, or when the first wrote nothing; when
\* the status has not followed the first write, the second call writes the
\* same value again.  Either way the configuration is the one a single call
\* leaves.
C12_GateIdempotent ==
    LET tr == trace[BootCore]
        t  == tgt[BootCore]
    IN  /\ \A i \in 1 .. (Len(tr) - 1) :
                SameRequest(tr[i], tr[i + 1]) =>
                    (tr[i + 1] \in GateWrites <=> tr[i] \in GateWrites)
        /\ \A i \in 1 .. (Len(tr) - 2) :
                (tr[i] \in GateWrites /\ tr[i + 1] = "settle"
                        /\ SameRequest(tr[i], tr[i + 2])) =>
                    tr[i + 2] \notin GateWrites
        /\ (Len(tr) > 0 /\ tr[Len(tr)] \in GateCalls) =>
                LET value == IF tr[Len(tr)] \in GateOn
                             THEN S5P_CORE_LOCAL_PWR_EN ELSE 0
                IN  IF tr[Len(tr)] \in GateWrites
                    THEN Config(t) = value /\ Status(t) % 4 # value
                    ELSE Status(t) % 4 = value

\* Power was asked for twice: the first call wrote, the hardware powered the
\* core, and the second call wrote nothing.
C12_Witness ==
    pc[BootCore] = "gate" /\ trace[BootCore] = << "on_write", "settle", "on_skip" >>

\* The events of exynos_power_down that follow the locked section.
UnlockedEvents ==
    { "flush_all", "flush_louis", "cci_disable", "cluster_down", "cpu_down",
      "gate_off", "wfi", "return" }

\* C13: on every path of exynos_power_down the core has released edcs_lock
\* before it starts to clean the caches, and it does not hold the lock while
\* it disables the CCI port, notifies the coordinator that the cluster or the
\* core is down, clears its power configuration, waits in WFI or returns.
C13_LockNotHeldAcrossFlush ==
    \A x \in Cores :
        /\ pc[x] \in AfterUnlock \cup {"wfi", "pd_ret"} => edcs_lock # x
        /\ \A i \in 1 .. Len(trace[x]) :
                trace[x][i] \in UnlockedEvents =>
                    /\ \E j \in 1 .. (i - 1) : trace[x][j] = "unlock"
                    /\ \A j \in 1 .. (i - 1) :
                            trace[x][j] = "unlock" =>
                                \A k \in (j + 1) .. i : trace[x][k] # "lock"

\* A core disables the CCI port of its cluster while another core holds
\* edcs_lock.
C13_Witness ==
    \E x \in Cores :
        pc[x] = "pd_cci" /\ crit[x] /\ edcs_lock \notin {x, NoCore}

\* ---------------------------------------------------------------- progress

\* What a core does by itself once its decrement is done: the rest of
\* exynos_power_down, one statement after the other, and the removal of its
\* power by the PMU once it waits in WFI.
Proceed(x) ==
    \/ PowerDownGic(x)
    \/ PowerDownCrit(x)
    \/ PowerDownUnlock(x)
    \/ PowerDownFlush(x)
    \/ PowerDownCci(x)
    \/ PowerDownLeave(x)
    \/ PowerDownFinish(x)
    \/ PowerDownRet(x)
    \/ PmuPowerOff(x)

\* The cores of the boot cluster.  Progress is examined for the requests made
\* within this cluster: its cores power each other up and themselves down, and
\* any of them but the boot core may have been started by the firmware.
BootCluster == CoresOf(ClusterOf(BootCore))

FairInit == \E fw \in SUBSET (BootCluster \ {BootCore}) : InitWith(fw)

FairNext ==
    \/ \E node \in BOOLEAN, cci \in BOOLEAN, ret \in {0, -16} : edcs_init(node, cci, ret)
    \/ \E y \in BootCluster, t \in BootCluster : PowerUpLock(y, t)
    \/ \E y \in BootCluster : PowerUpInc(y)
    \/ \E y \in BootCluster : PowerUpTest(y)
    \/ \E y \in BootCluster : PowerUpFlag(y)
    \/ \E y \in BootCluster : PowerUpGate(y)
    \/ \E y \in BootCluster : PowerUpUnlock(y)
    \/ \E x \in BootCluster : PowerDownEntry(x)
    \/ \E x \in BootCluster : PowerDownLock(x)
    \/ \E x \in BootCluster : PowerDownState(x)
    \/ \E x \in BootCluster : PowerDownDec(x)
    \/ \E x \in BootCluster : PowerDownCount(x)
    \/ \E x \in BootCluster : PowerDownGic(x)
    \/ \E x \in BootCluster : PowerDownCrit(x)
    \/ \E x \in BootCluster : PowerDownUnlock(x)
    \/ \E x \in BootCluster : PowerDownFlush(x)
    \/ \E x \in BootCluster : PowerDownCci(x)
    \/ \E x \in BootCluster : PowerDownLeave(x)
    \/ \E x \in BootCluster : PowerDownFinish(x)
    \/ \E x \in BootCluster : PowerDownRet(x)
    \/ \E x \in BootCluster : PmuPowerOff(x)
    \/ \E x \in BootCluster : PmuPowerOn(x)
    \/ \E x \in BootCluster : mcpm_entry_point(x)

\* Every core keeps executing and the PMU acts on a request it can serve.
FairSpec ==
    FairInit /\ [][FairNext]_vars /\ \A x \in BootCluster : WF_vars(Proceed(x))

\* The decrement of line 124 gave 0 or 1 and the request has not finished.
PassedDecrement(x) ==
    pc[x] \in {"pd_gic", "pd_crit", "pd_unlock", "pd_flush", "pd_cci",
               "pd_leave", "pd_cpu_down"}

\* The request is over: the core has returned (skip_wfi), or waits in WFI
\* with its power configuration cleared and then loses its power.
Returned(x) == pc[x] = "pd_ret"

PoweredOff(x) == pc[x] = "off"

\* __mcpm_outbound_enter_critical returns to its caller.
ClaimReturns(x) == (pc[x] = "pd_crit") ~> (pc[x] # "pd_crit")

C14_Steps ==
    \A x \in Cores :
        /\ PassedDecrement(x) => pc'[x] \in {"pd_gic", "pd_crit", "pd_unlock",
                "pd_flush", "pd_cci", "pd_leave", "pd_cpu_down", "wfi", "pd_ret"}
        /\ (pc[x] = "pd_cpu_down" /\ Steps(x)) =>
                pc'[x] = (IF skip_wfi[x] THEN "pd_ret" ELSE "wfi")
        /\ pc[x] = "wfi" => (pc'[x] \in {"wfi", "off"} /\ Config(x) = 0)

\* C14: provided the coordinator's claim returns, an exynos_power_down whose
\* decrement gave 0 or 1 goes forward statement by statement, whatever
\* requests the other cores make, and ends in one of two ways: the core waits
\* in WFI and its power is removed, or (skip_wfi) the function returns.
C14_RunToCompletion ==
    /\ [][C14_Steps]_vars
    /\ \A x \in BootCluster :
            ClaimReturns(x) => (PassedDecrement(x) ~> (PoweredOff(x) \/ Returned(x)))

\* A core waits in WFI at the end of its exynos_power_down, its power
\* configuration cleared, while another core is in the middle of a request.
C14_Witness ==
    \E x \in BootCluster, y \in BootCluster :
        /\ x # y
        /\ pc[x] = "wfi" /\ UseCount(x) = 0 /\ Config(x) = 0
        /\ pc[y] \in {"pu_inc", "pu_test", "pd_state", "pd_dec"}

\* The property without the proviso that the claim returns.
RunToCompletionUnconditionally ==
    \A x \in BootCluster : PassedDecrement(x) ~> (PoweredOff(x) \/ Returned(x))

\* The same, as a property of single states: a request that has passed its
\* decrement, or waits in WFI, can always take its next step, except while the
\* coordinator keeps the claim waiting.
CanProceed ==
    \A x \in Cores :
        (PassedDecrement(x) \/ pc[x] \in {"wfi", "pd_ret"}) =>
            \/ ENABLED Proceed(x)
            \/ pc[x] = "pd_crit" /\ last_man[x] /\ ~CanEnterCritical(x)

\* ---------------------------------------------------------------- C15

\* The table as edcs_data_init leaves it: 1 for the boot core, one active
\* core in its cluster, 0 everywhere else.
SeededTable ==
    /\ \A x \in Cores : UseCount(x) = (IF x = BootCore THEN 1 ELSE 0)
    /\ \A cpu \in Cpus, cluster \in Clusters :
         << cpu, cluster >> \notin Cores => edcs_use_count[cpu][cluster] = 0
    /\ \A c \in Clusters : core_count[c] = (IF c = ClusterOf(BootCore) THEN 1 ELSE 0)

\* The table as the loader leaves it: all zero.
EmptyTable ==
    /\ \A cpu \in Cpus, cluster \in Clusters : edcs_use_count[cpu][cluster] = 0
    /\ \A c \in Clusters : core_count[c] = 0

\* edcs_init has returned r.
Answered(r) == pc[BootCore] # "init" /\ init_ret = r

\* After a not-applicable answer nothing has been touched, then or later.
C15_NotApplicable ==
    Answered(-ENODEV) =>
        /\ ~entry_addr /\ ~registered /\ EmptyTable
        /\ \A c \in Clusters : mcpm_cluster[c] = "CLUSTER_DOWN"
        /\ \A x \in Cores : mcpm_cpu[x] = "CPU_DOWN" /\ trace[x] = << >>

\* The step of edcs_init: success seeds the table, writes the entry vector and
\* registers the operations; -ENODEV changes nothing but the answer.
C15_Steps ==
    pc[BootCore] = "init" /\ pc'[BootCore] # "init" =>
        /\ EmptyTable /\ ~entry_addr /\ ~registered
        /\ init_ret' = 0 => SeededTable' /\ entry_addr' /\ registered'
        /\ init_ret' = -ENODEV =>
               UNCHANGED << entry_addr, table_vars, registered, hw_vars,
                            mcpm_vars, edcs_lock >>

\* C15: a successful edcs_init leaves use count 1 for the boot core, one active
\* core in the boot cluster and 0 in every other entry; when the platform node
\* or the CCI is absent it answers -ENODEV and has written neither the entry
\* vector nor the table and has registered no operations.
C15_InitOutcome == []C15_NotApplicable /\ [][C15_Steps]_vars

\* edcs_init has just succeeded while a core started by the firmware waits at
\* the reset vector: its entry is 0 like every other.
C15_Witness ==
    /\ Answered(0) /\ registered /\ entry_addr
    /\ SeededTable
    /\ \E x \in Cores : pc[x] = "reset" /\ UseCount(x) = 0
    /\ \A x \in Cores : trace[x] = << >>

\* edcs_init has answered -ENODEV.
NotApplicableReached == Answered(-ENODEV) /\ ~registered

\* ---------------------------------------------------------------- C16

FailedClaimTrace ==
    << "going_down", "lock", "dec", "gic_down", "enter_critical", "unlock",
       "flush_louis", "cpu_down", "gate_off", "wfi" >>

Range(s) == { s[i] : i \in DOMAIN s }

\* The elected core whose claim was refused.
FailedClaim(x) == last_man[x] /\ "enter_critical" \in Range(trace[x]) /\ ~crit[x]

C16_InFlight ==
    \A x \in Cores :
        /\ (pc[x] \in InPowerDown /\ FailedClaim(x)) =>
                /\ pc[x] \in {"pd_unlock", "pd_flush", "pd_cpu_down"}
                /\ ~skip_wfi[x]
                /\ \E n \in 1..Len(FailedClaimTrace) :
                        trace[x] = SubSeq(FailedClaimTrace, 1, n)
        /\ (pc[x] = "wfi" /\ FailedClaim(x)) =>
                /\ trace[x] = FailedClaimTrace
                /\ mcpm_cpu[x] = "CPU_DOWN"
                /\ ~gic_if[x]
                /\ Config(x) = 0

C16_Steps ==
    \A x \in Cores :
        /\ (pc[x] = "pd_crit" /\ Steps(x) /\ last_man[x] /\ ~EnterCriticalResult(x)) =>
                /\ ~crit'[x]
                /\ pc'[x] = "pd_unlock"
                /\ UNCHANGED << table_vars, hw_vars, edcs_lock >>
                /\ mcpm_cluster'[ClusterOf(x)] = mcpm_cluster[ClusterOf(x)]
        /\ (FailedClaim(x) /\ Steps(x) /\ pc[x] \in InPowerDown) =>
                /\ cci_port' = cci_port
                /\ mcpm_cluster' = mcpm_cluster
                /\ pc'[x] \in {"pd_flush", "pd_cpu_down", "wfi"}

\* C16: an elected core whose __mcpm_outbound_enter_critical is refused goes
\* the way of a non-last core: it flushes its L1 only, leaves the CCI port and
\* the cluster state alone, still calls __mcpm_cpu_down, clears its power
\* configuration and executes WFI; the refusal is not fatal and does not
\* change edcs_use_count or core_count.
C16_FailedClaimFallback == []C16_InFlight /\ [][C16_Steps]_vars

\* An elected core waits in WFI after a refused claim.
C16_Witness ==
    \E x \in Cores :
        /\ pc[x] = "wfi" /\ FailedClaim(x)
        /\ UseCount(x) = 0 /\ core_count[ClusterOf(x)] = 0
        /\ cci_port[ClusterOf(x)]

\* ---------------------------------------------------------------- C17

\* A power_down of a core whose use count is 1 or more.
LegalCaller(x) == UseCount(x) >= 1

C17_AtCheck ==
    \A x \in Cores :
        /\ (pc[x] = "pd_state" /\ LegalCaller(x)) =>
                /\ edcs_lock = x
                /\ mcpm_cluster[ClusterOf(x)] = "CLUSTER_UP"
                /\ trace[x] = << "going_down", "lock" >>
        /\ pc[x] = "bug_state" =>
                /\ ~LegalCaller(x)
                /\ trace[x] = << "going_down", "lock" >>

C17_Steps ==
    \A x \in Cores :
        /\ (pc[x] = "pd_state" /\ Steps(x) /\ LegalCaller(x)) =>
                /\ pc'[x] = "pd_dec"
                /\ UNCHANGED table_vars
        /\ (pc[x] = "pd_state" /\ pc'[x] = "bug_state") => UNCHANGED table_vars
        /\ (pc[x] = "bug_state") => pc'[x] = "bug_state" /\ UseCountNext(x) = UseCount(x)

\* C17: BUG_ON of line 123 does not fire for a power_down of a core whose use
\* count is 1 or more: when such a core has taken edcs_lock its cluster reads
\* CLUSTER_UP; the test stands before the decrement, so a request it stopped
\* would have left edcs_use_count and core_count as they were.
C17_ClusterUpAtCheck == []C17_AtCheck /\ [][C17_Steps]_vars

\* A counted core has just taken the lock for its power_down while another
\* core of its cluster is on its way down.
C17_Witness ==
    \E x \in Cores, y \in Cores :
        /\ x # y /\ ClusterOf(x) = ClusterOf(y)
        /\ pc[x] = "pd_state" /\ LegalCaller(x)
        /\ pc[y] \in {"pd_flush", "pd_cpu_down", "wfi"}

\* The assertion of line 123 has stopped some core.
StateBugReached == \E x \in Cores : pc[x] = "bug_state"

\* ---------------------------------------------------------------- C18

\* The core x is between its successful __mcpm_outbound_enter_critical
\* (line 143) and its __mcpm_outbound_leave_critical (line 187).
Agent(x) == crit[x] /\ pc[x] \in {"pd_unlock", "pd_flush", "pd_cci", "pd_leave"}

AgentsOf(c) == { x \in CoresOf(c) : Agent(x) }

\* C18: at most one core of a cluster is between a successful
\* __mcpm_outbound_enter_critical and its __mcpm_outbound_leave_critical, also
\* when exynos_power_up requests for the cluster arrive after that core has
\* released edcs_lock: meanwhile the cluster reads CLUSTER_GOING_DOWN and no
\* other core of the cluster is up or going down.
C18_SingleAgent ==
    \A c \in Clusters :
        /\ Cardinality(AgentsOf(c)) <= 1
        /\ \A x \in AgentsOf(c) :
                /\ mcpm_cluster[c] = "CLUSTER_GOING_DOWN"
                /\ OthersIn(x, {"CPU_UP", "CPU_GOING_DOWN"}) = {}
                /\ \A y \in CoresOf(c) \ {x} : pc[y] \in {"off", "reset", "wfi"}

\* A core runs the cluster branch with the lock released, and an
\* exynos_power_up has since raised the use count of another core of the
\* cluster, which is out of reset and waits at the entry vector.
C18_Witness ==
    \E x \in Cores, y \in Cores :
        /\ x # y /\ ClusterOf(x) = ClusterOf(y)
        /\ Agent(x) /\ pc[x] \in {"pd_flush", "pd_cci", "pd_leave"}
        /\ UseCount(y) >= 1 /\ pc[y] = "reset"
        /\ edcs_lock = NoCore

\* ---------------------------------------------------------------- C19

WholeClusterEvents == {"flush_all", "cci_disable", "cluster_down"}

C19_Exclusive ==
    \A x \in Cores :
        /\ ~(skip_wfi[x] /\ last_man[x])
        /\ skip_wfi[x] =>
                /\ ~crit[x]
                /\ UseCount(x) >= 1 \/ edcs_lock # x
                /\ "enter_critical" \notin Range(trace[x])
                /\ Range(trace[x]) \cap WholeClusterEvents = {}
        /\ (Range(trace[x]) \cap WholeClusterEvents # {}) =>
                /\ crit[x] /\ last_man[x] /\ ~skip_wfi[x]
                /\ pc[x] \in {"pd_cci", "pd_leave", "pd_cpu_down", "wfi"}
                /\ pc[x] = "wfi" => "gate_off" \in Range(trace[x])
        /\ pc[x] = "pd_ret" =>
                /\ skip_wfi[x] /\ ~crit[x]
                /\ "flush_louis" \in Range(trace[x])

C19_Steps ==
    \A x \in Cores :
        /\ (pc[x] = "pd_count" /\ Steps(x) /\ UseCount(x) = 1) =>
                /\ skip_wfi'[x] /\ ~last_man'[x]
                /\ pc'[x] = "pd_gic"
                /\ core_count' = core_count
        /\ (pc[x] = "pd_crit" /\ Steps(x) /\ skip_wfi[x]) =>
                /\ ~crit'[x]
                /\ mcpm_cluster' = mcpm_cluster
                /\ trace'[x] = trace[x]
        /\ (pc[x] = "pd_cpu_down" /\ Steps(x) /\ crit[x]) =>
                /\ pc'[x] = "wfi"
                /\ ConfigNext(x) = 0

\* C19: within one exynos_power_down skip_wfi and last_man are never both
\* set: a core whose decrement leaves a use count of 1 is not elected and does
\* not call __mcpm_outbound_enter_critical; a core that runs the cluster
\* branch clears its power configuration and executes WFI; a core that returns
\* has flushed its L1 only.
C19_SkipAndLastManExclusive == []C19_Exclusive /\ [][C19_Steps]_vars

\* A core is about to return from exynos_power_down with its use count at 1
\* while the other core of its cluster, not elected, waits in WFI: the
\* returning core is the last one counted in the cluster and was not elected.
C19_Witness ==
    \E x \in Cores, y \in Cores :
        /\ x # y /\ ClusterOf(x) = ClusterOf(y)
        /\ pc[x] = "pd_ret" /\ skip_wfi[x] /\ UseCount(x) = 1
        /\ core_count[ClusterOf(x)] = 1
        /\ pc[y] = "wfi" /\ ~last_man[y]

\* ---------------------------------------------------------------- C20

\* Between __mcpm_cpu_going_down (line 120) and the decrement (line 124).
GoingDownUncounted == {"pd_lock", "pd_state", "pd_dec"}

\* The elected core x is at __mcpm_outbound_enter_critical with the lock held.
Claiming(x) == pc[x] = "pd_crit" /\ last_man[x] /\ edcs_lock = x

=============================================================================
